---- MODULE Spec2Model ----
(***************************************************************************)
(* Tides of Fortune (src/src/App.tsx): the simulation core of the game as  *)
(* a state machine.  The state is the content of the React refs (map,      *)
(* player, game state, the three timers), the two pieces of React state    *)
(* that the handlers read (showCrafting, activeItem) and the three         *)
(* localStorage records.  One action per handler: the frame update, the    *)
(* interaction, placement, use-item and craft handlers and the two menu    *)
(* keys.                                                                   *)
(* framePending and leaked follow the animation-frame loops that the loop  *)
(* effect starts and cancels.                                              *)
(*                                                                         *)
(* Numbers.  energy and hunger are kept in units of 0.05 point (StatUnit   *)
(* units per point), positions in units of 1/400 tile (PosUnit units per   *)
(* tile); every increment the code uses is a whole number of these units.  *)
(* Times are whole milliseconds and whole game minutes as in the code.     *)
(***************************************************************************)
EXTENDS Integers, Sequences, FiniteSets, TLC

VARIABLES map, player, gameState, timeAccumulator, saveTimer, regenTimer,
          showCrafting, activeItem, storage, reloading, clock, last, steps,
          framePending, leaked

vars == <<map, player, gameState, timeAccumulator, saveTimer, regenTimer,
          showCrafting, activeItem, storage, reloading, clock, last, steps,
          framePending, leaked>>

\* ------------------------------------------------------------------------
\* Bounds of the model (the map is a scaled-down island).
MAP_WIDTH == 7
MAP_HEIGHT == 1
grassRadius == 1
sandRadius == 2
shallowRadius == 3
MaxSteps == 2

\* Program constants.
GAME_MINS_PER_DAY == 24 * 60
msPerGameMin == 1 * 1000
REGROWTH_TIME == 24 * 60
StatUnit == 20
PosUnit == 400

Stat(points) == points * StatUnit
Hundredths(h) == (h * StatUnit) \div 100
BASE_SPEED == (3 * PosUnit) \div 100

Min(a, b) == IF a < b THEN a ELSE b
Max(a, b) == IF a > b THEN a ELSE b
Abs(a) == IF a < 0 THEN 0 - a ELSE a
Sign(a) == IF a > 0 THEN 1 ELSE IF a < 0 THEN 0 - 1 ELSE 0
\* Math.round of a non-negative position, in tiles.
Round(pos) == (pos + PosUnit \div 2) \div PosUnit

\* ------------------------------------------------------------------------
\* Types.
DeepWater == "DeepWater"
ShallowWater == "ShallowWater"
Sand == "Sand"
Grass == "Grass"

NoItem == "undefined"
NoActive == "null"
Directions == {"up", "down", "left", "right"}
Xs == 0 .. (MAP_WIDTH - 1)
Ys == 0 .. (MAP_HEIGHT - 1)

\* ITEM_PROPS
Edible(item) == item = "coconut"
HungerRestore(item) == IF item = "coconut" THEN Stat(20) ELSE Stat(10)
Placeable(item) == item = "wall_wood"

\* RECIPES
RecipeIds == {"craft_axe", "craft_crate", "craft_wall_wood"}
RecipeResult(id) ==
  CASE id = "craft_axe" -> "axe"
    [] id = "craft_crate" -> "crate"
    [] id = "craft_wall_wood" -> "wall_wood"
RecipeAmount(id) == IF id \in RecipeIds THEN 1 ELSE 0
RecipeIngredients(id) ==
  CASE id = "craft_axe" -> [k \in {"metal", "driftwood"} |-> 1]
    [] id = "craft_crate" -> [k \in {"driftwood"} |-> 6]
    [] id = "craft_wall_wood" -> [k \in {"wood"} |-> 2]

\* ------------------------------------------------------------------------
\* The inventory: a sparse mapping, a function on the set of its keys.
Count(inv, k) == IF k \in DOMAIN inv THEN inv[k] ELSE 0
Put(inv, k, v) == [j \in (DOMAIN inv) \cup {k} |-> IF j = k THEN v ELSE inv[j]]
Delete(inv, k) == [j \in (DOMAIN inv) \ {k} |-> inv[j]]
Inventory(keys, counts) == [j \in keys |-> counts[j]]
EmptyInventory == [j \in {} |-> 0]

\* ------------------------------------------------------------------------
\* generateMap: the tile type from the distance to the centre
\* (distance < r  iff  (2x-W)^2 + (2y-H)^2 < 4 r^2).
Dist4(x, y) == (2 * x - MAP_WIDTH) * (2 * x - MAP_WIDTH)
               + (2 * y - MAP_HEIGHT) * (2 * y - MAP_HEIGHT)
TileTypeAt(x, y) ==
  IF Dist4(x, y) < 4 * grassRadius * grassRadius THEN Grass
  ELSE IF Dist4(x, y) < 4 * sandRadius * sandRadius THEN Sand
  ELSE IF Dist4(x, y) < 4 * shallowRadius * shallowRadius THEN ShallowWater
  ELSE DeepWater

NewTile(type, item) ==
  [type |-> type, item |-> item, stumpChoppedAt |-> <<>>, placedStructure |-> NoItem]

GrassPos == {p \in Xs \X Ys : TileTypeAt(p[1], p[2]) = Grass}
SandPos == {p \in Xs \X Ys : TileTypeAt(p[1], p[2]) = Sand}

\* trees: the grass tiles on which Math.random() < 0.20 came true.
generateMap(trees) ==
  [y \in Ys |-> [x \in Xs |->
     NewTile(TileTypeAt(x, y),
             IF TileTypeAt(x, y) = Grass /\ <<x, y>> \in trees THEN "tree" ELSE NoItem)]]

\* ------------------------------------------------------------------------
\* triggerTide.  A roll is Math.random() in hundredths.
Rolls == {14, 88, 97, 99}
RollItem(roll) ==
  IF roll < 15 THEN "driftwood"
  ELSE IF roll > 88 /\ roll < 98 THEN "metal"
  ELSE IF roll > 98 THEN "crate"
  ELSE NoItem

\* Mutant of TideTile: the sweep does not spare the player's tile.
TideTileUnderPlayer(tile, isPlayerHere, roll) ==
  IF tile.type = Sand /\ tile.item = NoItem /\ tile.placedStructure = NoItem
     /\ RollItem(roll) # NoItem
  THEN [tile EXCEPT !.item = RollItem(roll)]
  ELSE tile

TideTile(tile, isPlayerHere, roll) ==
  IF tile.type = Sand
     /\ tile.item = NoItem /\ ~isPlayerHere /\ tile.placedStructure = NoItem
     /\ RollItem(roll) # NoItem
  THEN [tile EXCEPT !.item = RollItem(roll)]
  ELSE tile

triggerTide(m, p, rolls) ==
  [y \in Ys |-> [x \in Xs |->
     TideTile(m[y][x], Round(p.x) = x /\ Round(p.y) = y,
              IF <<x, y>> \in DOMAIN rolls THEN rolls[<<x, y>>] ELSE 50)]]

\* ------------------------------------------------------------------------
\* checkRegrowth.  stumpChoppedAt is <<>> (undefined) or <<t>>; the code tests
\* its truthiness, which is false for undefined and for 0.
Truthy(stamp) == stamp # <<>> /\ stamp[1] # 0

RegrowTile(tile, currentTotalMinutes) ==
  IF tile.item = "tree_stump" /\ Truthy(tile.stumpChoppedAt)
     /\ currentTotalMinutes - tile.stumpChoppedAt[1] >= REGROWTH_TIME
  THEN [tile EXCEPT !.item = "tree", !.stumpChoppedAt = <<>>]
  ELSE tile

checkRegrowth(m, currentTotalMinutes) ==
  [y \in Ys |-> [x \in Xs |-> RegrowTile(m[y][x], currentTotalMinutes)]]

\* ------------------------------------------------------------------------
\* saveGame: the three records are written from the refs as they are now.
saveGame(m, p, gs) == [map |-> <<m>>, player |-> <<p>>, gameState |-> <<gs>>]
EmptyStorage == [map |-> <<>>, player |-> <<>>, gameState |-> <<>>]

\* ------------------------------------------------------------------------
\* Mutant of Spend: the cost is subtracted without the clamp.
SpendUnclamped(energy, cost) == energy - cost
\* Math.max(0, player.energy - cost): every energy cost is clamped at 0.
Spend(energy, cost) == Max(0, energy - cost)

\* ------------------------------------------------------------------------
\* update, stage by stage.

RestHeld(keys) == "r" \in keys \/ "R" \in keys

\* Mutant of Regen: the passive regeneration does not look at hunger.
RegenHungry(p, fired) ==
  IF ~fired THEN p
  ELSE IF p.isResting THEN
    LET e == Min(Stat(100), p.energy + Stat(1))
    IN [p EXCEPT !.energy = e,
                 !.hunger = IF e < Stat(100) THEN Max(0, p.hunger - Hundredths(5))
                            ELSE p.hunger]
  ELSE IF ~p.isMoving THEN
    [p EXCEPT !.energy = Min(Stat(100), p.energy + Hundredths(5))]
  ELSE p

\* Lines 456-466: the regeneration cadence; fired = the 100 ms timer ran out.
Regen(p, fired) ==
  IF ~fired THEN p
  ELSE IF p.isResting THEN
    LET e == Min(Stat(100), p.energy + Stat(1))
    IN [p EXCEPT !.energy = e,
                 !.hunger = IF e < Stat(100) THEN Max(0, p.hunger - Hundredths(5))
                            ELSE p.hunger]
  ELSE IF ~p.isMoving /\ p.hunger > Stat(50) THEN
    [p EXCEPT !.energy = Min(Stat(100), p.energy + Hundredths(5))]
  ELSE p

\* Line 479: the 20-minute event is tested on the time of day after the add.
BoundaryHit(timeOfDay) == timeOfDay % 20 = 0
\* Mutant of RolloverTime: the remainder, not one subtraction.
RolloverModulo(timeOfDay) == timeOfDay % GAME_MINS_PER_DAY
\* Line 481: the day rollover subtracts one day.
RolloverTime(timeOfDay) == timeOfDay - GAME_MINS_PER_DAY
\* Mutant of Baseline: the baseline is taken from day and time in every frame.
BaselineAlways(gs, timeOfDay) ==
  gs.day * GAME_MINS_PER_DAY + timeOfDay

\* Line 476: the lazy baseline of a record loaded without totalMinutes.
Baseline(gs, timeOfDay) ==
  IF gs.totalMinutes = 0 THEN gs.day * GAME_MINS_PER_DAY + timeOfDay
  ELSE gs.totalMinutes
HungerDecay(p) == [p EXCEPT !.hunger = Max(0, p.hunger - Stat(1))]

\* Mutant of Remainder: the milliseconds short of a minute are dropped.
RemainderDropped(acc) ==
  0

\* Line 478: the accumulator keeps what is short of a whole minute.
Remainder(acc) ==
  acc % msPerGameMin

\* Lines 468-488.  p is the player after the regeneration stage, acc the
\* accumulator after the scaled deltaTime was added.  The result holds the new
\* refs, the accumulator, the storage and what the stage did.
AdvanceTime(m, p, gs, acc, st, rolls) ==
  IF acc < msPerGameMin
  THEN [map |-> m, player |-> p, gameState |-> gs, acc |-> acc, storage |-> st,
        minutesToAdd |-> 0, boundary |-> FALSE, tides |-> 0]
  ELSE
    LET minutesToAdd == acc \div msPerGameMin
        tod1 == gs.timeOfDay + minutesToAdd
        total == Baseline(gs, tod1) + minutesToAdd
        boundary == BoundaryHit(tod1)
        p1 == IF boundary THEN HungerDecay(p) ELSE p
        m1 == IF boundary THEN checkRegrowth(m, total) ELSE m
        rollover == tod1 >= GAME_MINS_PER_DAY
        gs1 == [gs EXCEPT !.timeOfDay = IF rollover THEN RolloverTime(tod1) ELSE tod1,
                          !.totalMinutes = total,
                          !.day = IF rollover THEN gs.day + 1 ELSE gs.day]
        m2 == IF rollover THEN triggerTide(m1, p1, rolls) ELSE m1
    IN [map |-> m2, player |-> p1, gameState |-> gs1, acc |-> Remainder(acc),
        storage |-> IF rollover THEN saveGame(m2, p1, gs1) ELSE st,
        minutesToAdd |-> minutesToAdd, boundary |-> boundary,
        tides |-> IF rollover THEN 1 ELSE 0]

\* Mutant of CurrentSpeed: in the shallows the step is half the full speed
\* whatever the energy.
CurrentSpeedFlat(p, m) ==
  LET safeX == Max(0, Min(Round(p.x), MAP_WIDTH - 1))
      safeY == Max(0, Min(Round(p.y), MAP_HEIGHT - 1))
  IN IF m[safeY][safeX].type = ShallowWater THEN BASE_SPEED \div 2
     ELSE IF p.energy <= 0 THEN BASE_SPEED \div 2 ELSE BASE_SPEED

\* Lines 490-499.
CurrentSpeed(p, m) ==
  LET safeX == Max(0, Min(Round(p.x), MAP_WIDTH - 1))
      safeY == Max(0, Min(Round(p.y), MAP_HEIGHT - 1))
      base == IF p.energy <= 0 THEN BASE_SPEED \div 2 ELSE BASE_SPEED
  IN IF m[safeY][safeX].type = ShallowWater THEN base \div 2 ELSE base

\* Mutant of Intent: the order is right, left, down, up.
IntentReversed(keys) ==
  IF "d" \in keys \/ "ArrowRight" \in keys THEN "right"
  ELSE IF "a" \in keys \/ "ArrowLeft" \in keys THEN "left"
  ELSE IF "s" \in keys \/ "ArrowDown" \in keys THEN "down"
  ELSE IF "w" \in keys \/ "ArrowUp" \in keys THEN "up"
  ELSE "none"

\* Lines 517-520: the first asserted direction in the order up, down, left, right.
Intent(keys) ==
  IF "w" \in keys \/ "ArrowUp" \in keys THEN "up"
  ELSE IF "s" \in keys \/ "ArrowDown" \in keys THEN "down"
  ELSE IF "a" \in keys \/ "ArrowLeft" \in keys THEN "left"
  ELSE IF "d" \in keys \/ "ArrowRight" \in keys THEN "right"
  ELSE "none"

OffsetX(dir) == IF dir = "left" THEN 0 - 1 ELSE IF dir = "right" THEN 1 ELSE 0
OffsetY(dir) == IF dir = "up" THEN 0 - 1 ELSE IF dir = "down" THEN 1 ELSE 0
InBounds(x, y) == x >= 0 /\ x < MAP_WIDTH /\ y >= 0 /\ y < MAP_HEIGHT
\* Mutant of IsSolid: the deep water does not block.
IsSolidOnLand(tile) ==
  tile.item # NoItem \/ tile.placedStructure # NoItem

\* Line 525
IsSolid(tile) ==
  tile.type = DeepWater \/ tile.item # NoItem \/ tile.placedStructure # NoItem

\* Mutant of Approach: the step is never cut short at the target.
ApproachNoSnap(pos, target, speed) ==
  pos + Sign(target * PosUnit - pos) * speed

\* Lines 504-507: a step of the speed, or the snap to the target when no more
\* than a step is left.
Approach(pos, target, speed) ==
  IF Abs(target * PosUnit - pos) > speed
  THEN pos + Sign(target * PosUnit - pos) * speed
  ELSE target * PosUnit

\* Lines 501-512: one step towards the target.
MoveStep(p, m) ==
  LET speed == CurrentSpeed(p, m)
      x1 == Approach(p.x, p.targetX, speed)
      y1 == Approach(p.y, p.targetY, speed)
      arrived == x1 = p.targetX * PosUnit /\ y1 = p.targetY * PosUnit
  IN [p EXCEPT !.x = x1, !.y = y1,
               !.isMoving = ~arrived,
               !.energy = IF arrived THEN Spend(p.energy, Hundredths(10)) ELSE p.energy]

\* Mutant of StartMove: a solid tile does not block.
StartMoveThrough(p, m, keys) ==
  LET dir == Intent(keys)
      nextX == p.x \div PosUnit + OffsetX(dir)
      nextY == p.y \div PosUnit + OffsetY(dir)
  IN IF dir = "none" THEN p
     ELSE IF InBounds(nextX, nextY)
     THEN [p EXCEPT !.facing = dir, !.targetX = nextX, !.targetY = nextY,
                    !.isMoving = TRUE]
     ELSE [p EXCEPT !.facing = dir]

\* Mutant of StartMove: a candidate off the map is accepted as the target.
StartMoveOffMap(p, m, keys) ==
  LET dir == Intent(keys)
      nextX == p.x \div PosUnit + OffsetX(dir)
      nextY == p.y \div PosUnit + OffsetY(dir)
  IN IF dir = "none" THEN p
     ELSE IF ~InBounds(nextX, nextY) \/ ~IsSolid(m[nextY][nextX])
     THEN [p EXCEPT !.facing = dir, !.targetX = nextX, !.targetY = nextY,
                    !.isMoving = TRUE]
     ELSE [p EXCEPT !.facing = dir]

\* Lines 513-533: an idle player that does not rest takes a movement intent.
\* An idle player stands on a tile (x and y are whole tiles), so the candidate
\* indexes the map.
StartMove(p, m, keys) ==
  LET dir == Intent(keys)
      nextX == p.x \div PosUnit + OffsetX(dir)
      nextY == p.y \div PosUnit + OffsetY(dir)
  IN IF dir = "none" THEN p
     ELSE IF InBounds(nextX, nextY) /\ ~IsSolid(m[nextY][nextX])
     THEN [p EXCEPT !.facing = dir, !.targetX = nextX, !.targetY = nextY,
                    !.isMoving = TRUE]
     ELSE [p EXCEPT !.facing = dir]

Movement(p, m, keys) ==
  IF p.isMoving THEN MoveStep(p, m)
  ELSE IF ~p.isResting THEN StartMove(p, m, keys)
  ELSE p

NoEvent(op, arg) ==
  [op |-> op, arg |-> arg, minutesToAdd |-> 0, boundary |-> FALSE, tides |-> 0,
   deltaTime |-> 0, travelled |-> 0]

\* The session's account of time: the scaled milliseconds the frames have fed
\* to the accumulator since construction and the game minutes they have added.
NoTime == [elapsed |-> 0, minutes |-> 0]

\* ------------------------------------------------------------------------
\* The frame: update(deltaTime) with the keys held in keysRef and, for a tide
\* sweep, the rolls Math.random() gives on the sand tiles.
\* A frame is a deltaTime and the set of keys held: short frames under every
\* key combination, long ones (a stalled tab) with and without rest.
KeyCombos ==
  {{}, {"r"}, {"w"}, {"s"}, {"a"}, {"d"}, {"a", "d"}, {"r", "d"},
   {"w", "s"}, {"s", "a"}, {"w", "s", "a", "d"}}
Frames ==
  ({40} \X KeyCombos) \cup ({100, 1500, 1500000} \X {{}, {"r"}})
TideRolls == [SandPos -> Rolls]
NoRolls == [q \in {} |-> 50]

UpdateEffect(deltaTime, keys, rolls) ==
  LET save1 == saveTimer + deltaTime > 5000
      st1 == IF save1 THEN saveGame(map, player, gameState) ELSE storage
      p1 == [player EXCEPT !.isResting = RestHeld(keys)]
      fired == regenTimer + deltaTime >= 100
      p2 == Regen(p1, fired)
      timeDelta == IF p2.isResting THEN deltaTime * 20 ELSE deltaTime
      t == AdvanceTime(map, p2, gameState, timeAccumulator + timeDelta, st1, rolls)
      p3 == Movement(t.player, t.map, keys)
  IN /\ map' = t.map
     /\ gameState' = t.gameState
     /\ player' = p3
     /\ clock' = [elapsed |-> clock.elapsed + timeDelta,
                  minutes |-> clock.minutes + t.minutesToAdd]
     /\ timeAccumulator' = t.acc
     /\ saveTimer' = IF save1 THEN 0 ELSE saveTimer + deltaTime
     /\ regenTimer' = IF fired THEN 0 ELSE regenTimer + deltaTime
     /\ storage' = t.storage
     /\ last' = [op |-> "update", arg |-> keys, minutesToAdd |-> t.minutesToAdd,
                 boundary |-> t.boundary, tides |-> t.tides,
                 deltaTime |-> deltaTime,
                 travelled |-> Abs(p3.x - player.x) + Abs(p3.y - player.y)]

\* Whether this frame rolls the day over (the rolls are drawn only then).
WillRollOver(deltaTime, keys) ==
  LET timeDelta == IF RestHeld(keys) THEN deltaTime * 20 ELSE deltaTime
  IN gameState.timeOfDay + (timeAccumulator + timeDelta) \div msPerGameMin
       >= GAME_MINS_PER_DAY

\* The frame loop (lines 418-439 and 803-807).  The effect that owns it runs
\* again whenever showCrafting or activeItem changes: its cleanup cancels the
\* request whose id is in animationFrameId and the new run requests a first
\* frame of a new loop, whose update closes over the new showCrafting.  The
\* id of that first request is not kept (line 803): animationFrameId is set
\* only once loop has run (line 438), so a cleanup that comes before the first
\* frame cancels nothing and the old loop goes on running next to the new
\* one, with the showCrafting of its own run.  framePending: the loop of the
\* current run has not had a frame yet.  leaked: a loop that escaped its
\* cancellation runs with showCrafting = FALSE (one that closed over TRUE
\* returns at line 444 for ever).
frameRan ==
  /\ framePending' = FALSE
  /\ UNCHANGED leaked

effect ==
  IF showCrafting' # showCrafting \/ activeItem' # activeItem
  THEN /\ framePending' = TRUE
       /\ leaked' = (leaked \/ (framePending /\ ~showCrafting))
  ELSE UNCHANGED <<framePending, leaked>>

update ==
  /\ steps < MaxSteps
  /\ steps' = steps + 1
  /\ UNCHANGED <<showCrafting, activeItem, reloading>>
  /\ frameRan
  /\ \E frame \in Frames :
       IF showCrafting
       THEN /\ UNCHANGED <<map, player, gameState, timeAccumulator, saveTimer,
                           regenTimer, storage, clock>>
            /\ last' = NoEvent("paused", frame[2])
       ELSE \E rolls \in (IF WillRollOver(frame[1], frame[2]) THEN TideRolls
                          ELSE {NoRolls}) :
              UpdateEffect(frame[1], frame[2], rolls)

\* ------------------------------------------------------------------------
\* The tile the player faces (lines 253-259 and 377-385).
FacedX(p) == Round(p.x) + OffsetX(p.facing)
FacedY(p) == Round(p.y) + OffsetY(p.facing)

\* Mutant of Chop: the stump is left without the minute of the chop.
ChopUnstamped(tile, totalMinutes) ==
  [tile EXCEPT !.item = "tree_stump"]

\* handleInteraction (key E or Space with no placeable item active).
Chop(tile, totalMinutes) ==
  [tile EXCEPT !.item = "tree_stump", !.stumpChoppedAt = <<totalMinutes>>]

\* Mutant of Refuses: a tree is chopped whatever the active item is.
RefusesBareTile(tile, active) ==
  tile.item = NoItem

\* The interaction returns before acting: nothing on the tile, or a tree and
\* no axe selected (lines 387 and 389-392).
Refuses(tile, active) ==
  tile.item = NoItem \/ (tile.item = "tree" /\ active # "axe")

handleInteraction ==
  /\ steps < MaxSteps
  /\ steps' = steps + 1
  /\ UNCHANGED <<reloading, clock>>
  /\ ~(activeItem # NoActive /\ Placeable(activeItem))
  /\ last' = NoEvent("interact", {})
  /\ UNCHANGED <<timeAccumulator, saveTimer, regenTimer, showCrafting, activeItem>>
  /\ LET tx == FacedX(player)
         ty == FacedY(player)
         inv == gameState.inventory
     IN IF player.energy <= 0 \/ player.isResting \/ ~InBounds(tx, ty)
        THEN UNCHANGED <<map, player, gameState, storage>>
        ELSE LET tile == map[ty][tx]
             IN IF Refuses(tile, activeItem)
                THEN UNCHANGED <<map, player, gameState, storage>>
                ELSE /\ map' = IF tile.item = "tree"
                                 THEN [map EXCEPT ![ty][tx] = Chop(tile, gameState.totalMinutes)]
                               ELSE IF tile.item # "tree_stump"
                                 THEN [map EXCEPT ![ty][tx].item = NoItem]
                               ELSE map
                     /\ gameState' =
                          IF tile.item = "tree"
                            THEN [gameState EXCEPT !.inventory =
                                   Put(Put(inv, "wood", Count(inv, "wood") + 3),
                                       "coconut", Count(inv, "coconut") + 1)]
                          ELSE IF tile.item # "tree_stump"
                            THEN [gameState EXCEPT !.inventory =
                                   Put(inv, tile.item, Count(inv, tile.item) + 1)]
                          ELSE gameState
                     /\ player' =
                          IF tile.item = "tree"
                            THEN [player EXCEPT !.energy = Spend(player.energy, Stat(10))]
                          ELSE IF tile.item # "tree_stump"
                            THEN [player EXCEPT !.energy = Spend(player.energy, Stat(5))]
                          ELSE player
                     /\ storage' = saveGame(map', player', gameState')
  /\ effect

\* Mutant of TakeOne: the key stays in the inventory at count 0.
TakeOneKeepKey(inv, item) ==
  Put(inv, item, Count(inv, item) - 1)

\* One unit of item leaves the inventory; the key is deleted when the count
\* reaches 0 (lines 235-236 and 264-265).
TakeOne(inv, item) ==
  IF Count(inv, item) - 1 = 0 THEN Delete(inv, item)
  ELSE Put(inv, item, Count(inv, item) - 1)

\* Mutant of CanPlace: only a structure already there refuses the placement.
CanPlaceOnItem(tile) ==
  tile.type # DeepWater /\ tile.placedStructure = NoItem

\* A structure goes on a tile that is not deep water and holds neither an
\* item nor a structure (line 261).
CanPlace(tile) ==
  tile.type # DeepWater /\ tile.item = NoItem /\ tile.placedStructure = NoItem

\* handlePlaceItem (key E or Space with a placeable item active).
handlePlaceItem ==
  /\ steps < MaxSteps
  /\ steps' = steps + 1
  /\ UNCHANGED <<reloading, clock>>
  /\ activeItem # NoActive /\ Placeable(activeItem)
  /\ last' = NoEvent("place", {})
  /\ UNCHANGED <<player, timeAccumulator, saveTimer, regenTimer, showCrafting>>
  /\ LET tx == FacedX(player)
         ty == FacedY(player)
         inv == gameState.inventory
         left == Count(inv, activeItem) - 1
     IN IF InBounds(tx, ty) /\ CanPlace(map[ty][tx])
        THEN /\ map' = [map EXCEPT ![ty][tx].placedStructure = activeItem]
             /\ gameState' = [gameState EXCEPT !.inventory = TakeOne(inv, activeItem)]
             /\ activeItem' = IF left = 0 THEN NoActive ELSE activeItem
             /\ storage' = saveGame(map', player, gameState')
        ELSE UNCHANGED <<map, gameState, activeItem, storage>>
  /\ effect

\* handleUseItem(item): a click on an entry of the inventory lists, or a hotkey.
handleUseItem ==
  /\ steps < MaxSteps
  /\ steps' = steps + 1
  /\ UNCHANGED <<reloading, clock>>
  /\ UNCHANGED <<map, timeAccumulator, saveTimer, regenTimer, showCrafting>>
  /\ \E item \in DOMAIN gameState.inventory :
       LET inv == gameState.inventory
           left == Count(inv, item) - 1
       IN /\ last' = NoEvent("use", {item})
          /\ IF activeItem = item
             THEN /\ activeItem' = NoActive
                  /\ UNCHANGED <<player, gameState, storage>>
             ELSE IF Count(inv, item) > 0 /\ Edible(item)
             THEN /\ activeItem' = NoActive
                  /\ player' = [player EXCEPT !.hunger =
                                  Min(Stat(100), player.hunger + HungerRestore(item))]
                  /\ gameState' = [gameState EXCEPT !.inventory = TakeOne(inv, item)]
                  /\ storage' = saveGame(map, player', gameState')
             ELSE /\ activeItem' = IF Count(inv, item) > 0 THEN item ELSE NoActive
                  /\ UNCHANGED <<player, gameState, storage>>
  /\ effect

\* Mutant of CanCraft: one satisfied ingredient is enough.
CanCraftAny(inv, id) ==
  \E k \in DOMAIN RecipeIngredients(id) : ~(Count(inv, k) < RecipeIngredients(id)[k])

\* handleCraft(recipe): the Craft button of the crafting menu.
CanCraft(inv, id) ==
  \A k \in DOMAIN RecipeIngredients(id) : ~(Count(inv, k) < RecipeIngredients(id)[k])

Deduct(inv, id) ==
  [j \in (DOMAIN inv) \cup (DOMAIN RecipeIngredients(id)) |->
     IF j \in DOMAIN RecipeIngredients(id)
     THEN Count(inv, j) - RecipeIngredients(id)[j]
     ELSE inv[j]]

Craft(inv, id) ==
  IF CanCraft(inv, id)
  THEN Put(Deduct(inv, id), RecipeResult(id),
           Count(Deduct(inv, id), RecipeResult(id)) + RecipeAmount(id))
  ELSE inv

handleCraft ==
  /\ steps < MaxSteps
  /\ steps' = steps + 1
  /\ UNCHANGED <<reloading, clock>>
  /\ showCrafting
  /\ UNCHANGED <<map, player, timeAccumulator, saveTimer, regenTimer, showCrafting,
                 activeItem>>
  /\ \E id \in RecipeIds :
       /\ last' = NoEvent("craft", {id})
       /\ gameState' = [gameState EXCEPT !.inventory = Craft(gameState.inventory, id)]
       /\ storage' = IF CanCraft(gameState.inventory, id)
                     THEN saveGame(map, player, gameState')
                     ELSE storage
  /\ effect

\* Key C toggles the crafting menu, Escape closes it; both deselect.
keyC ==
  /\ steps < MaxSteps
  /\ steps' = steps + 1
  /\ UNCHANGED <<reloading, clock>>
  /\ activeItem' = NoActive
  /\ showCrafting' = ~showCrafting
  /\ last' = NoEvent("keyC", {})
  /\ UNCHANGED <<map, player, gameState, timeAccumulator, saveTimer, regenTimer, storage>>
  /\ effect

keyEscape ==
  /\ steps < MaxSteps
  /\ steps' = steps + 1
  /\ UNCHANGED <<reloading, clock>>
  /\ activeItem' = NoActive
  /\ showCrafting' = FALSE
  /\ last' = NoEvent("keyEscape", {})
  /\ UNCHANGED <<map, player, gameState, timeAccumulator, saveTimer, regenTimer, storage>>
  /\ effect

\* ------------------------------------------------------------------------
\* Construction.  loadOrInitMap, loadOrInitPlayer and loadOrInitGameState
\* return the stored record when there is one and a fresh value otherwise.
StartX == MAP_WIDTH \div 2
StartY == MAP_HEIGHT \div 2

FreshPlayer ==
  [x |-> StartX * PosUnit, y |-> StartY * PosUnit, targetX |-> StartX,
   targetY |-> StartY, isMoving |-> FALSE, facing |-> "down",
   energy |-> Stat(100), hunger |-> Stat(100), isResting |-> FALSE]

FreshGameState ==
  [day |-> 1, timeOfDay |-> 8 * 60, totalMinutes |-> 8 * 60,
   inventory |-> EmptyInventory]

\* A fresh world: the generated map after the tide sweep of the mount effect
\* (lines 325-329), nothing stored.
FreshWorlds ==
  {[map |-> triggerTide(generateMap(trees), FreshPlayer, rolls),
    player |-> FreshPlayer, gameState |-> FreshGameState, storage |-> EmptyStorage] :
     trees \in SUBSET GrassPos, rolls \in TideRolls}

\* Worlds stored by an earlier session and loaded at construction.  The
\* inventory holds what a few harvests and crafts give.
SavedInventories ==
  <<Inventory({"axe", "wood", "coconut", "wall_wood", "metal"},
              [axe |-> 1, wood |-> 2, coconut |-> 1, wall_wood |-> 1, metal |-> 1]),
    Inventory({"axe", "wood", "coconut", "wall_wood", "metal", "driftwood"},
              [axe |-> 1, wood |-> 3, coconut |-> 2, wall_wood |-> 2, metal |-> 1,
               driftwood |-> 1])>>

\* The player of a stored world: on the start tile facing the grass tile to its
\* right, or one step short of the tile to its left on the way there.
Standing == [FreshPlayer EXCEPT !.facing = "right"]
Walking ==
  [FreshPlayer EXCEPT !.facing = "left", !.isMoving = TRUE,
                      !.targetX = StartX - 1,
                      !.x = (StartX - 1) * PosUnit + (PosUnit - 33 * BASE_SPEED)]

\* The shallow-water tile of the start row that borders the deep water on its
\* left.
ShoreX ==
  CHOOSE x \in Xs \ {0} :
    TileTypeAt(x, StartY) = ShallowWater /\ TileTypeAt(x - 1, StartY) = DeepWater

\* The player of a stored world in the water: standing on the shore tile
\* facing the deep water, or exhausted and three steps short of the shore tile
\* on the way there from the sand (34 steps at half speed on the sand, 63 at
\* quarter speed in the water).
Ashore ==
  [FreshPlayer EXCEPT !.facing = "left", !.x = ShoreX * PosUnit,
                      !.targetX = ShoreX]
Wading ==
  [FreshPlayer EXCEPT !.facing = "left", !.isMoving = TRUE, !.targetX = ShoreX,
                      !.x = (ShoreX + 1) * PosUnit - 34 * (BASE_SPEED \div 2)
                              - 63 * (BASE_SPEED \div 4)]

\* The map of a stored world: the tile to the right of the start tile holds
\* item (a tree, or a stump with the minute of the chop), the others nothing.
SavedMap(item, choppedAt) ==
  [y \in Ys |-> [x \in Xs |->
     IF x = StartX + 1 /\ y = StartY
     THEN [NewTile(TileTypeAt(x, y), item) EXCEPT !.stumpChoppedAt = choppedAt]
     ELSE NewTile(TileTypeAt(x, y), NoItem)]]

\* The same map with a wall built on the sand tile right of the grass.
WalledMap ==
  [SavedMap("tree", <<>>) EXCEPT ![StartY][StartX + 2].placedStructure = "wall_wood"]

SavedWorld(m, p, energy, hunger, day, timeOfDay, totalMinutes, inv) ==
  LET pl == [p EXCEPT !.energy = energy, !.hunger = hunger]
      gs == [day |-> day, timeOfDay |-> timeOfDay, totalMinutes |-> totalMinutes,
             inventory |-> SavedInventories[inv]]
  IN [map |-> m, player |-> pl, gameState |-> gs, storage |-> saveGame(m, pl, gs)]

\* A record stored without totalMinutes loads as 0 (the case line 476 provides
\* for); a tree chopped before the first minute of such a session is stamped 0.
SavedWorlds ==
  {SavedWorld(SavedMap("tree", <<>>), Standing, Stat(100), Stat(100), 1, 1430, 1430, 1),
   SavedWorld(SavedMap("tree", <<>>), Standing, Stat(5), Stat(90), 1, 1430, 1430, 2),
   SavedWorld(SavedMap("tree_stump", <<500>>), Standing, 0, Stat(51), 2, 499, 1939, 1),
   SavedWorld(SavedMap("tree_stump", <<501>>), Walking, Hundredths(5), 0, 2, 499, 1939, 2),
   SavedWorld(SavedMap("tree", <<>>), Standing, Stat(100), Stat(100), 1, 499, 0, 2),
   SavedWorld(SavedMap("tree_stump", <<0>>), Walking, Stat(99), Stat(50), 1, 499, 0, 1),
   SavedWorld(SavedMap("tree", <<>>), Ashore, Stat(60), Stat(40), 1, 600, 600, 1),
   SavedWorld(SavedMap("tree_stump", <<520>>), Wading, 0, Stat(100), 1, 600, 600, 2),
   SavedWorld(WalledMap, Standing, Stat(80), Stat(80), 3, 1430, 4310, 1)}

Init ==
  /\ \E w \in FreshWorlds \cup SavedWorlds :
       /\ map = w.map
       /\ player = w.player
       /\ gameState = w.gameState
       /\ storage = w.storage
  /\ timeAccumulator = 0
  /\ saveTimer = 0
  /\ regenTimer = 0
  /\ showCrafting = FALSE
  /\ activeItem = NoActive
  /\ reloading = FALSE
  /\ clock = NoTime
  /\ last = NoEvent("init", {})
  /\ framePending = TRUE
  /\ leaked = FALSE
  /\ steps = 0

\* ------------------------------------------------------------------------
\* handleRestart (the Restart button): after the confirmation the three
\* records are removed in one handler run and a reload of the page is asked
\* for.  The reload is a navigation: the page keeps running its frames and
\* handlers until the browser replaces it, which is the reload step below.
handleRestart ==
  /\ steps < MaxSteps
  /\ steps' = steps + 1
  /\ UNCHANGED <<map, player, gameState, timeAccumulator, saveTimer, regenTimer,
                 showCrafting, activeItem, clock>>
  /\ \E confirmed \in BOOLEAN :
       /\ last' = NoEvent("restart", {})
       /\ storage' = IF confirmed THEN EmptyStorage ELSE storage
       /\ reloading' = (reloading \/ confirmed)
  /\ effect

\* The new page: loadOrInitMap, loadOrInitPlayer and loadOrInitGameState read
\* the records (lines 163-181), the refs and the React state start over
\* (lines 183-199) and the mount effect runs (lines 325-329).
Load(st, trees, rolls) ==
  LET gs == IF st.gameState = <<>> THEN FreshGameState ELSE st.gameState[1]
      p == IF st.player = <<>> THEN FreshPlayer ELSE st.player[1]
      m == IF st.map = <<>> THEN generateMap(trees) ELSE st.map[1]
  IN [map |-> IF gs.day = 1 /\ gs.timeOfDay = 8 * 60 /\ st.map = <<>>
              THEN triggerTide(m, p, rolls) ELSE m,
      player |-> p, gameState |-> gs]

reload ==
  /\ reloading
  /\ steps < MaxSteps
  /\ steps' = steps + 1
  /\ reloading' = FALSE
  /\ clock' = NoTime
  /\ \E trees \in SUBSET GrassPos, rolls \in TideRolls :
       /\ map' = Load(storage, trees, rolls).map
       /\ player' = Load(storage, trees, rolls).player
       /\ gameState' = Load(storage, trees, rolls).gameState
  /\ timeAccumulator' = 0
  /\ saveTimer' = 0
  /\ regenTimer' = 0
  /\ showCrafting' = FALSE
  /\ activeItem' = NoActive
  /\ last' = NoEvent("reload", {})
  /\ framePending' = TRUE
  /\ leaked' = FALSE
  /\ UNCHANGED storage

\* A frame of a leaked loop: update with showCrafting = FALSE in its closure,
\* whatever the menu is now.
leakedFrame ==
  /\ leaked
  /\ steps < MaxSteps
  /\ steps' = steps + 1
  /\ UNCHANGED <<showCrafting, activeItem, reloading, framePending, leaked>>
  /\ \E frame \in Frames :
       \E rolls \in (IF WillRollOver(frame[1], frame[2]) THEN TideRolls
                     ELSE {NoRolls}) :
         UpdateEffect(frame[1], frame[2], rolls)

Next ==
  \/ update
  \/ leakedFrame
  \/ handleInteraction
  \/ handlePlaceItem
  \/ handleUseItem
  \/ handleCraft
  \/ keyC
  \/ keyEscape
  \/ handleRestart
  \/ reload

Spec == Init /\ [][Next]_vars

\* ------------------------------------------------------------------------
\* A walk from a fresh world: frames of a 60 Hz display, long enough in number
\* for the player to wade from the start tile to the edge of the deep water
\* (34 frames to the sand, 17 + 34 through the shallows), with the left or the
\* right key held (a key held against a solid tile or the map edge leaves the
\* player idle for the frame).
MaxWalk == 90
WalkFrames == {16} \X {{"a"}, {"d"}}

InitFresh ==
  /\ Init
  /\ storage = EmptyStorage

walk ==
  /\ steps < MaxWalk
  /\ steps' = steps + 1
  /\ UNCHANGED <<showCrafting, activeItem, reloading>>
  /\ frameRan
  /\ \E frame \in WalkFrames :
       \E rolls \in (IF WillRollOver(frame[1], frame[2]) THEN TideRolls
                     ELSE {NoRolls}) :
         UpdateEffect(frame[1], frame[2], rolls)

SpecWalk == InitFresh /\ [][walk]_vars

\* ------------------------------------------------------------------------
\* Frames that never stop coming: the requestAnimationFrame loop (lines
\* 433-440) calls update for every frame.  For the first MaxTicks frames a
\* key is held and 16 ms pass; after that the frames keep coming with no key
\* held and the clock standing still (deltaTime 0, as in the first frame of
\* the loop), so that moves in progress run to their end and the counters of
\* game time stay bounded.
MaxTicks == 3
TickKeys == {{"a"}, {"d"}, {"r"}}
TickFrames ==
  IF steps < MaxTicks THEN {16} \X TickKeys ELSE {0} \X {{}}

tick ==
  /\ steps' = Min(steps + 1, MaxTicks)
  /\ UNCHANGED <<showCrafting, activeItem, reloading>>
  /\ frameRan
  /\ \E frame \in TickFrames :
       \E rolls \in (IF WillRollOver(frame[1], frame[2]) THEN TideRolls
                     ELSE {NoRolls}) :
         UpdateEffect(frame[1], frame[2], rolls)

SpecTicks == Init /\ [][tick]_vars /\ WF_vars(tick)

\* ------------------------------------------------------------------------
\* The handlers alone (keys and clicks between two frames), with a budget of
\* ItemSteps of them: the step counter starts that much below MaxSteps.
ItemSteps == 3

InitItems ==
  /\ \E w \in FreshWorlds \cup SavedWorlds :
       /\ map = w.map
       /\ player = w.player
       /\ gameState = w.gameState
       /\ storage = w.storage
  /\ timeAccumulator = 0
  /\ saveTimer = 0
  /\ regenTimer = 0
  /\ showCrafting = FALSE
  /\ activeItem = NoActive
  /\ reloading = FALSE
  /\ clock = NoTime
  /\ last = NoEvent("init", {})
  /\ framePending = TRUE
  /\ leaked = FALSE
  /\ steps = MaxSteps - ItemSteps

NextItems ==
  \/ handleInteraction
  \/ handlePlaceItem
  \/ handleUseItem
  \/ handleCraft
  \/ keyC
  \/ keyEscape

SpecItems == InitItems /\ [][NextItems]_vars

\* ------------------------------------------------------------------------
\* Frames that keep game time going, from the stored worlds of day 2 whose
\* stump is one or two minutes short of its regrowth time: a frame of 1500 ms
\* (one or two minutes) or a second of rest (20 minutes), until totalMinutes
\* reaches Horizon.
Horizon == 2100
RegrowFrames == {<<1500, {}>>, <<1000, {"r"}>>}

InitStumps ==
  /\ Init
  /\ gameState.day = 2
  /\ \E y \in Ys : \E x \in Xs : map[y][x].item = "tree_stump"

pass ==
  /\ gameState.totalMinutes < Horizon
  /\ UNCHANGED <<showCrafting, activeItem, reloading, steps>>
  /\ frameRan
  /\ \E frame \in RegrowFrames :
       \E rolls \in (IF WillRollOver(frame[1], frame[2]) THEN TideRolls
                     ELSE {NoRolls}) :
         UpdateEffect(frame[1], frame[2], rolls)

SpecRegrow == InitStumps /\ [][pass]_vars /\ WF_vars(pass)

\* ------------------------------------------------------------------------
\* The frames of a session that starts from a fresh world.
SpecDays == InitFresh /\ [][update]_vars

\* ------------------------------------------------------------------------
\* Properties.
ItemTypes ==
  {"driftwood", "crate", "metal", "axe", "wood", "coconut", "tree", "tree_stump",
   "wall_wood"}
TideItems == {"driftwood", "metal", "crate"}

\* C1: after every frame and every player action, energy and hunger are both
\* within [0, 100].
StatsInRange ==
  /\ player.energy >= 0 /\ player.energy <= Stat(100)
  /\ player.hunger >= 0 /\ player.hunger <= Stat(100)

\* A chop that cost more energy than the player had left.
StatsClamped ==
  /\ last.op = "interact"
  /\ player.energy = 0
  /\ \E y \in Ys, x \in Xs : map[y][x].stumpChoppedAt = <<gameState.totalMinutes>>
                             /\ gameState.totalMinutes # 0

\* C2: crafting is all-or-nothing: with every ingredient present in its amount
\* each ingredient drops by exactly its amount, the result rises by the
\* recipe's amount and every other count stays; with any ingredient short the
\* inventory is left as it was.
CraftAllOrNothing ==
  [][\A id \in RecipeIds :
       (last'.op = "craft" /\ last'.arg = {id}) =>
         LET inv == gameState.inventory
             ing == RecipeIngredients(id)
         IN IF \A k \in DOMAIN ing : Count(inv, k) >= ing[k]
            THEN \A k \in ItemTypes :
                   Count(gameState'.inventory, k) =
                     Count(inv, k)
                     - (IF k \in DOMAIN ing THEN ing[k] ELSE 0)
                     + (IF k = RecipeResult(id) THEN RecipeAmount(id) ELSE 0)
            ELSE gameState'.inventory = inv]_vars

\* A craft that went through, and one refused with one ingredient present and
\* the other missing.
CraftDone ==
  /\ last.op = "craft" /\ last.arg = {"craft_wall_wood"}
  /\ Count(gameState.inventory, "wall_wood") = 3
  /\ Count(gameState.inventory, "wood") = 1
CraftRefused ==
  /\ last.op = "craft" /\ last.arg = {"craft_axe"}
  /\ Count(gameState.inventory, "metal") = 1
  /\ Count(gameState.inventory, "driftwood") = 0

\* C3: the inventory holds no zero-count entry: every key present maps to a
\* positive count.
NoZeroCount ==
  \A k \in DOMAIN gameState.inventory : gameState.inventory[k] > 0

\* C4: at every frame boundary timeOfDay is within [0, 1440), and day is at
\* least 1 and never decreases (within a session: a reload after a restart
\* starts a new world).
ClockInRange ==
  [][/\ gameState'.timeOfDay >= 0
     /\ gameState'.timeOfDay < GAME_MINS_PER_DAY
     /\ gameState'.day >= 1
     /\ last'.op # "reload" => gameState'.day >= gameState.day]_vars

\* C5: a frame whose added minutes bring timeOfDay to 1440 or more increments
\* day by exactly 1, sets timeOfDay to the old value plus the added minutes
\* minus 1440 and runs the tide sweep exactly once; a tide sweep runs only in a
\* frame that increments day, and within a session day changes in no other way.
DayRollover ==
  [][/\ (last'.op = "update" /\ last'.minutesToAdd > 0
         /\ gameState.timeOfDay + last'.minutesToAdd >= GAME_MINS_PER_DAY)
        => /\ gameState'.day = gameState.day + 1
           /\ gameState'.timeOfDay =
                gameState.timeOfDay + last'.minutesToAdd - GAME_MINS_PER_DAY
           /\ last'.tides = 1
     /\ last'.tides > 0 => (last'.op = "update" /\ gameState'.day = gameState.day + 1)
     /\ gameState'.day # gameState.day /\ last'.op # "reload" => last'.tides = 1]_vars

\* A rollover that kept an overflow of more than a day.
RolledOver ==
  /\ last.op = "update" /\ last.tides = 1
  /\ gameState.day = 2
  /\ gameState.timeOfDay = 1430 + 1500 - GAME_MINS_PER_DAY

\* C6: totalMinutes never decreases within a session, and in every frame it
\* advances by exactly the minutes added to timeOfDay in that frame, whatever
\* value was loaded.
TotalMinutesAdvance ==
  [][/\ last'.op # "reload" => gameState'.totalMinutes >= gameState.totalMinutes
     /\ last'.op = "update" =>
          gameState'.totalMinutes = gameState.totalMinutes + last'.minutesToAdd]_vars

\* C7: whenever a frame makes timeOfDay cross a multiple of 20 minutes the
\* minute-boundary event fires, for every size of the minute delta; a frame that
\* adds no minutes fires none.
BoundaryOnCrossing ==
  [][last'.op = "update" =>
       /\ ((gameState.timeOfDay + last'.minutesToAdd) \div 20
             > gameState.timeOfDay \div 20) => last'.boundary
       /\ last'.minutesToAdd = 0 => ~last'.boundary]_vars

\* C8: a regrowth sweep at totalMinutes = M turns a stump chopped at T into a
\* tree and clears its timestamp if and only if M >= T + 1440, for every T.
RegrowthIff ==
  [][last'.boundary =>
       \A y \in Ys, x \in Xs :
         (map[y][x].item = "tree_stump" /\ map[y][x].stumpChoppedAt # <<>>) =>
           ((map'[y][x].item = "tree" /\ map'[y][x].stumpChoppedAt = <<>>)
              <=> gameState'.totalMinutes
                    >= map[y][x].stumpChoppedAt[1] + REGROWTH_TIME)]_vars

\* C9: a tide sweep writes only to Sand tiles with Empty content that are not
\* the player's tile, gives such a tile one item and leaves every other tile
\* unchanged (a stump may regrow in the same frame); one rollover runs one sweep.
TideWrites ==
  [][/\ last'.tides <= 1
     /\ last'.tides = 1 =>
          \A y \in Ys, x \in Xs :
            map'[y][x] # map[y][x] =>
              \/ /\ map[y][x].item = "tree_stump"
                 /\ map'[y][x] = [map[y][x] EXCEPT !.item = "tree",
                                                    !.stumpChoppedAt = <<>>]
              \/ /\ map[y][x].type = Sand
                 /\ map[y][x].item = NoItem
                 /\ map[y][x].placedStructure = NoItem
                 /\ ~(Round(player.x) = x /\ Round(player.y) = y)
                 /\ \E it \in TideItems :
                      map'[y][x] = [map[y][x] EXCEPT !.item = it]]_vars

\* A sweep that spared the sand tile under the player and stocked another.
TideSpared ==
  /\ last.op = "update" /\ last.tides = 1
  /\ map[Round(player.y)][Round(player.x)].type = Sand
  /\ map[Round(player.y)][Round(player.x)].item = NoItem
  /\ \E y \in Ys, x \in Xs : map[y][x].type = Sand /\ map[y][x].item \in TideItems

\* C10: when an idle player that does not rest gives a movement intent whose
\* candidate tile is out of bounds or solid, facing becomes the intended
\* direction and position, target tile and the moving flag stay unchanged.
BlockedMove ==
  [][(/\ last'.op = "update"
      /\ ~player.isMoving
      /\ ~RestHeld(last'.arg)
      /\ Intent(last'.arg) # "none"
      /\ LET nextX == player.x \div PosUnit + OffsetX(Intent(last'.arg))
             nextY == player.y \div PosUnit + OffsetY(Intent(last'.arg))
         IN ~InBounds(nextX, nextY) \/ IsSolid(map'[nextY][nextX]))
     => /\ player'.facing = Intent(last'.arg)
        /\ player'.x = player.x /\ player'.y = player.y
        /\ player'.targetX = player.targetX /\ player'.targetY = player.targetY
        /\ ~player'.isMoving]_vars

\* A step to the left refused by an item on the tile, and one refused by the
\* edge of the map.
BlockedBySolid ==
  /\ last.op = "update" /\ last.arg = {"a"}
  /\ steps = 1
  /\ player.facing = "left" /\ ~player.isMoving
  /\ player.x = StartX * PosUnit /\ player.targetX = StartX
  /\ map[StartY][StartX - 1].item # NoItem


\* ------------------------------------------------------------------------
\* C11: an Interact that cannot succeed (the faced tile is out of bounds, holds
\* nothing, holds a stump, or holds a tree while the axe is not the active
\* item) changes no tile, no inventory count and no energy.
FacesNothingToTake ==
  LET tx == FacedX(player)
      ty == FacedY(player)
  IN \/ ~InBounds(tx, ty)
     \/ /\ InBounds(tx, ty)
        /\ \/ map[ty][tx].item \in {NoItem, "tree_stump"}
           \/ map[ty][tx].item = "tree" /\ activeItem # "axe"

FailedInteractInert ==
  [][last'.op = "interact" /\ FacesNothingToTake
       => /\ map' = map
          /\ gameState'.inventory = gameState.inventory
          /\ player'.energy = player.energy]_vars

\* An interaction by a player with energy on a tree, the axe not selected.
ChopRefused ==
  /\ last.op = "interact"
  /\ player.energy > 0
  /\ ~player.isResting
  /\ InBounds(FacedX(player), FacedY(player))
  /\ map[FacedY(player)][FacedX(player)].item = "tree"
  /\ activeItem # "axe"

\* ------------------------------------------------------------------------
\* C12: while the player keeps resting with hunger above 0, a regeneration
\* cadence never lowers energy as long as energy is below 100, and once energy
\* is 100 every further cadence strictly lowers hunger.
RegenFired ==
  last'.op = "update" /\ regenTimer' = 0

RestingFeedsOnHunger ==
  [][RegenFired /\ player.isResting /\ RestHeld(last'.arg) /\ player.hunger > 0
       => /\ player.energy < Stat(100) => player'.energy >= player.energy
          /\ player.energy = Stat(100) => player'.hunger < player.hunger]_vars

\* ------------------------------------------------------------------------
\* C13: no tile holds both an item (a stump included) and a placed structure,
\* and no deep-water tile holds a placed structure.
ContentExclusive ==
  \A y \in Ys : \A x \in Xs :
    /\ ~(map[y][x].item # NoItem /\ map[y][x].placedStructure # NoItem)
    /\ map[y][x].type = DeepWater => map[y][x].placedStructure = NoItem

\* A placement has put a structure on the map.
StructurePlaced ==
  /\ last.op = "place"
  /\ \E y \in Ys : \E x \in Xs : map[y][x].placedStructure # NoItem

\* A placement was asked for on the deep water, and on a tile holding an item.
PlaceOnDeepWater ==
  /\ last.op = "place"
  /\ InBounds(FacedX(player), FacedY(player))
  /\ map[FacedY(player)][FacedX(player)].type = DeepWater

PlaceOnItem ==
  /\ last.op = "place"
  /\ InBounds(FacedX(player), FacedY(player))
  /\ map[FacedY(player)][FacedX(player)].item # NoItem

\* A tide sweep has passed over a sand tile holding a structure.
TideMetStructure ==
  /\ last.tides > 0
  /\ \E y \in Ys : \E x \in Xs :
       map[y][x].type = Sand /\ map[y][x].placedStructure # NoItem

\* ------------------------------------------------------------------------
\* C14: a tick runs the time advance (with its boundary and rollover events)
\* first, then regeneration, then movement: regeneration sees the hunger the
\* time advance of the same tick has left.  So when the boundary decay of a
\* tick leaves an idle, unrested player with hunger at 50 or less, the cadence
\* of that tick restores no energy.
RegenSeesDecayedHunger ==
  [][/\ RegenFired
     /\ last'.boundary
     /\ ~RestHeld(last'.arg)
     /\ ~player.isMoving
     /\ player'.hunger <= Stat(50)
     => player'.energy = player.energy]_vars

\* ------------------------------------------------------------------------
\* C15: every save happens at a tick boundary: the records a step writes are
\* the state at the start of the step or the state at its end, never a state
\* in between (time advanced, movement not yet applied).
SavesAtTickBoundary ==
  [][storage' # storage /\ storage' # EmptyStorage
       => \/ storage' = saveGame(map, player, gameState)
          \/ storage' = saveGame(map', player', gameState')]_vars

\* ------------------------------------------------------------------------
\* C16: a restart clears the three records as one unit: no step leaves the
\* store with some records present and others absent, and once the restart
\* has cleared the store no save of the session that was restarted writes a
\* record again.
AllOrNone(st) ==
  /\ (st.map = <<>>) = (st.player = <<>>)
  /\ (st.player = <<>>) = (st.gameState = <<>>)

RestartClearsForGood ==
  [][/\ AllOrNone(storage')
     /\ reloading /\ storage = EmptyStorage => storage' = EmptyStorage]_vars

\* The three records are never partly present.
StoreAllOrNone ==
  AllOrNone(storage)

\* ------------------------------------------------------------------------
\* C17: from a fresh world, whatever the frames and the keys held, neither the
\* tile of the player's rounded position nor the target tile of a move is deep
\* water.
NeverOnDeepWater ==
  /\ InBounds(Round(player.x), Round(player.y))
  /\ map[Round(player.y)][Round(player.x)].type # DeepWater
  /\ InBounds(player.targetX, player.targetY)
  /\ map[player.targetY][player.targetX].type # DeepWater

\* The player stands on the shore and has turned to the deep water: the move
\* was asked for and refused.
TurnedToDeepWater ==
  /\ last.op = "update"
  /\ Intent(last.arg) = player.facing
  /\ ~player.isMoving
  /\ InBounds(FacedX(player), FacedY(player))
  /\ map[FacedY(player)][FacedX(player)].type = DeepWater

\* ------------------------------------------------------------------------
\* C18: a movement step covers the base speed, halved when the rounded
\* position is on shallow water and halved again when energy is 0: a quarter
\* with both, the full base speed with neither.  The step that reaches the
\* target covers what is left, at most that much.
Travelled ==
  Abs(player'.x - player.x) + Abs(player'.y - player.y)

WaterFactor ==
  IF map[Round(player.y)][Round(player.x)].type = ShallowWater THEN 2 ELSE 1

TiredFactor ==
  IF player'.energy = 0 /\ player'.isMoving THEN 2
  ELSE IF ~player'.isMoving /\ player'.energy = 0 /\ player.energy = 0 THEN 2
  ELSE 1

StepAtTileSpeed ==
  [][last'.op = "update" /\ player.isMoving
       => IF player'.isMoving
          THEN Travelled * WaterFactor * TiredFactor = BASE_SPEED
          ELSE Travelled * WaterFactor * TiredFactor <= BASE_SPEED]_vars

\* A step at quarter speed: exhausted, in the shallows, one step on from where
\* the stored walk stood.
QuarterStep ==
  /\ last.op = "update"
  /\ player.isMoving
  /\ player.energy = 0
  /\ map[Round(player.y)][Round(player.x)].type = ShallowWater
  /\ player.x = Wading.x - BASE_SPEED \div 4

\* A step at half speed in the shallows with energy left.
HalfStepInWater ==
  /\ last.op = "update"
  /\ player.isMoving
  /\ player.energy > 0
  /\ map[Round(player.y)][Round(player.x)].type = ShallowWater
  /\ player.x = Ashore.x + BASE_SPEED \div 2

\* ------------------------------------------------------------------------
\* C19: from a fresh world, the tile under the player's rounded position and
\* the target tile of a move hold neither an item nor a structure.
EmptyContent(tile) ==
  tile.item = NoItem /\ tile.placedStructure = NoItem

OnEmptyContent ==
  /\ EmptyContent(map[Round(player.y)][Round(player.x)])
  /\ EmptyContent(map[player.targetY][player.targetX])

\* ------------------------------------------------------------------------
\* C20: a tick with rest held leaves the player Resting, even in the middle of
\* a move; Resting excludes Moving (the player is never both, and the position
\* does not advance in a resting tick); a tick without rest held leaves the
\* player not Resting.
RestExcludesMoving ==
  [][last'.op = "update"
       => /\ player'.isResting = RestHeld(last'.arg)
          /\ ~(player'.isResting /\ player'.isMoving)
          /\ player'.isResting => player'.x = player.x /\ player'.y = player.y]_vars

\* ------------------------------------------------------------------------
\* C21: with frames that keep coming and the crafting menu closed, every move
\* that has started completes: the position goes towards the target without
\* passing it, ends exactly on the target tile on both axes with the player no
\* longer moving, and the movement cost of 0.1 energy (clamped at 0) is charged
\* in the frame of the arrival and in no other.
Between(a, b, c) ==
  (a <= b /\ b <= c) \/ (c <= b /\ b <= a)

OnTarget(p) ==
  p.x = p.targetX * PosUnit /\ p.y = p.targetY * PosUnit

MoveStepsToTarget ==
  /\ last'.op = "update" /\ player.isMoving
       => /\ player'.targetX = player.targetX /\ player'.targetY = player.targetY
          /\ Between(player.x, player'.x, player.targetX * PosUnit)
          /\ Between(player.y, player'.y, player.targetY * PosUnit)
          /\ ~player'.isMoving <=> OnTarget(player')
          /\ ~RestHeld(last'.arg)
               => player'.energy = IF player'.isMoving THEN player.energy
                                   ELSE Max(0, player.energy - Hundredths(10))
  /\ last'.op = "update" /\ ~player.isMoving
       => player'.energy >= player.energy

MoveCompletes ==
  /\ [][MoveStepsToTarget]_vars
  /\ player.isMoving ~> (~player.isMoving /\ OnTarget(player))

\* A move from the start tile has ended on the tile next to it.
MoveCompleted ==
  /\ last.op = "update"
  /\ ~player.isMoving
  /\ OnTarget(player)
  /\ player.targetX # StartX
  /\ player.targetX # ShoreX

\* ------------------------------------------------------------------------
\* C22: when several movement directions are asserted in a tick, the one that
\* counts is the first of up, down, left, right among them: the idle player
\* faces it, and a move starts exactly when its candidate tile is in bounds and
\* not solid, towards that tile, whatever the other asserted directions offer.
Rank(dir) ==
  IF dir = "up" THEN 1 ELSE IF dir = "down" THEN 2 ELSE IF dir = "left" THEN 3 ELSE 4

KeysOf(dir) ==
  IF dir = "up" THEN {"w", "ArrowUp"}
  ELSE IF dir = "down" THEN {"s", "ArrowDown"}
  ELSE IF dir = "left" THEN {"a", "ArrowLeft"}
  ELSE {"d", "ArrowRight"}

Asserted(keys) ==
  {dir \in {"up", "down", "left", "right"} : KeysOf(dir) \cap keys # {}}

Winner(keys) ==
  CHOOSE dir \in Asserted(keys) : \A e \in Asserted(keys) : Rank(dir) <= Rank(e)

PriorityDecides ==
  [][(/\ last'.op = "update"
      /\ ~player.isMoving
      /\ ~RestHeld(last'.arg)
      /\ Asserted(last'.arg) # {})
       => LET dir == Winner(last'.arg)
              cx == Round(player.x) + OffsetX(dir)
              cy == Round(player.y) + OffsetY(dir)
          IN /\ player'.facing = dir
             /\ player'.isMoving <=> (InBounds(cx, cy) /\ ~IsSolid(map'[cy][cx]))
             /\ player'.isMoving => player'.targetX = cx /\ player'.targetY = cy
             /\ ~player'.isMoving => /\ player'.targetX = player.targetX
                                     /\ player'.targetY = player.targetY]_vars

\* Left and right were both held: the move went left.
LeftBeatRight ==
  /\ last.op = "update"
  /\ last.arg = {"a", "d"}
  /\ player.isMoving
  /\ player.facing = "left"
  /\ player.targetX = StartX - 1

\* Down and left were both held on the bottom row: the player turned down and
\* stayed, the free tile on the left notwithstanding.
DownBeatLeft ==
  /\ last.op = "update"
  /\ last.arg = {"s", "a"}
  /\ ~player.isMoving
  /\ player.facing = "down"
  /\ ~IsSolid(map[Round(player.y)][Round(player.x) - 1])

\* ------------------------------------------------------------------------
\* C23: a successful harvest of the in-bounds faced tile: a tree with the axe
\* active becomes a stump stamped with the current totalMinutes, wood grows by
\* 3, coconut by 1 and energy drops by 10 (clamped at 0); any other item that
\* is not a stump leaves the tile Empty, grows that item's count by 1 and
\* drops energy by 5 (clamped at 0); no other tile and no other count changes.
CanReach ==
  /\ player.energy > 0
  /\ ~player.isResting
  /\ InBounds(FacedX(player), FacedY(player))

Gain(item, faced) ==
  IF faced = "tree" THEN (IF item = "wood" THEN 3 ELSE IF item = "coconut" THEN 1 ELSE 0)
  ELSE IF item = faced THEN 1 ELSE 0

HarvestExact ==
  [][last'.op = "interact" /\ CanReach
       => LET tx == FacedX(player)
              ty == FacedY(player)
              tile == map[ty][tx]
          IN /\ (tile.item = "tree" /\ activeItem = "axe")
                  => /\ map' = [map EXCEPT ![ty][tx] =
                                  [tile EXCEPT !.item = "tree_stump",
                                               !.stumpChoppedAt = <<gameState.totalMinutes>>]]
                     /\ player'.energy = Max(0, player.energy - Stat(10))
             /\ tile.item \notin {NoItem, "tree", "tree_stump"}
                  => /\ map' = [map EXCEPT ![ty][tx] = [tile EXCEPT !.item = NoItem]]
                     /\ player'.energy = Max(0, player.energy - Stat(5))
             /\ (tile.item \notin {NoItem, "tree_stump"}
                   /\ (tile.item = "tree" => activeItem = "axe"))
                  => \A k \in ItemTypes :
                       Count(gameState'.inventory, k)
                         = Count(gameState.inventory, k) + Gain(k, tile.item)]_vars

\* A tree was chopped and stamped with an energy of 5 clamped to 0.
TreeChopped ==
  /\ last.op = "interact"
  /\ InBounds(FacedX(player), FacedY(player))
  /\ activeItem = "axe"
  /\ map[FacedY(player)][FacedX(player)].item = "tree_stump"
  /\ map[FacedY(player)][FacedX(player)].stumpChoppedAt = <<gameState.totalMinutes>>
  /\ Count(gameState.inventory, "wood") = 6
  /\ player.energy = 0

\* An item the tide left on the sand was picked up.
ItemTaken ==
  /\ last.op = "interact"
  /\ InBounds(FacedX(player), FacedY(player))
  /\ map[FacedY(player)][FacedX(player)].type = Sand
  /\ map[FacedY(player)][FacedX(player)].item = NoItem
  /\ \E k \in TideItems : Count(gameState.inventory, k) = 1
  /\ player.energy = Stat(95)

\* ------------------------------------------------------------------------
\* C24: a placement with a placeable active item succeeds exactly when the
\* faced tile is in bounds, is not deep water and has Empty content: the tile
\* then holds the structure, the item's count drops by one and, when it
\* reaches zero, the key is removed and the active item cleared; otherwise
\* tile, inventory and active item are unchanged.
PlaceExact ==
  [][last'.op = "place"
       => LET tx == FacedX(player)
              ty == FacedY(player)
              inv == gameState.inventory
              inv1 == gameState'.inventory
          IN IF /\ InBounds(tx, ty)
                /\ map[ty][tx].type # DeepWater
                /\ map[ty][tx].item = NoItem
                /\ map[ty][tx].placedStructure = NoItem
             THEN /\ map' = [map EXCEPT ![ty][tx].placedStructure = activeItem]
                  /\ \A k \in ItemTypes :
                       Count(inv1, k) = Count(inv, k) - (IF k = activeItem THEN 1 ELSE 0)
                  /\ IF Count(inv, activeItem) = 1
                     THEN activeItem \notin DOMAIN inv1 /\ activeItem' = NoActive
                     ELSE activeItem \in DOMAIN inv1 /\ activeItem' = activeItem
             ELSE /\ map' = map
                  /\ inv1 = inv
                  /\ activeItem' = activeItem]_vars

\* The last wall of the stack was placed: the key is gone, nothing is active.
LastWallPlaced ==
  /\ last.op = "place"
  /\ activeItem = NoActive
  /\ "wall_wood" \notin DOMAIN gameState.inventory
  /\ InBounds(FacedX(player), FacedY(player))
  /\ map[FacedY(player)][FacedX(player)].placedStructure = "wall_wood"

\* A wall of a stack of two was placed: one is left and stays active.
WallPlacedOfTwo ==
  /\ last.op = "place"
  /\ activeItem = "wall_wood"
  /\ Count(gameState.inventory, "wall_wood") = 1
  /\ InBounds(FacedX(player), FacedY(player))
  /\ map[FacedY(player)][FacedX(player)].placedStructure = "wall_wood"

\* ------------------------------------------------------------------------
\* C25: game time does not drift: with the accumulator empty at construction,
\* the game minutes added by the frames so far are floor(sum of deltaTime * m
\* / 1000), m being 20 in a frame the player rests in and 1 otherwise, and the
\* accumulator holds a remainder within [0, 1000).
NoDrift ==
  /\ clock.minutes = clock.elapsed \div msPerGameMin
  /\ timeAccumulator >= 0
  /\ timeAccumulator < msPerGameMin

\* Two frames of 1500 ms: the two halves left over have made the third minute.
RemaindersAddUp ==
  /\ last.op = "update"
  /\ clock.elapsed = 3000
  /\ clock.minutes = 3
  /\ last.minutesToAdd = 2

\* ------------------------------------------------------------------------
\* C26: while moving, the distance covered in a tick is the speed multiplied
\* by the tick's deltaTime: over two consecutive ticks of a move, the
\* distances, each taken at full-speed scale, are in the ratio of the two
\* deltaTimes (twice the deltaTime, twice the distance).
PrevX ==
  player.x - Sign(player.targetX * PosUnit - player.x) * last.travelled

PrevWaterFactor ==
  IF map[Round(player.y)][Round(PrevX)].type = ShallowWater THEN 2 ELSE 1

PrevTiredFactor ==
  IF player.energy = 0 THEN 2 ELSE 1

StepScalesWithDeltaTime ==
  [][(/\ last.op = "update" /\ last.travelled > 0
      /\ last'.op = "update"
      /\ player.isMoving /\ player'.isMoving
      /\ player.y = player.targetY * PosUnit)
       => last'.travelled * WaterFactor * TiredFactor * last.deltaTime
            = last.travelled * PrevWaterFactor * PrevTiredFactor * last'.deltaTime]_vars

\* ------------------------------------------------------------------------
\* C27: in a tick in which the player does not rest, energy rises only if the
\* player is not moving, hunger is above 50 and the regeneration cadence fires
\* in that tick; the rise is 0.05, capped at 100, and hunger is not changed by
\* it (hunger changes only by the decay of a 20-minute boundary).
PassiveRegenOnly ==
  [][last'.op = "update" /\ ~RestHeld(last'.arg)
       => /\ player'.energy > player.energy
               => /\ ~player.isMoving
                  /\ player.hunger > Stat(50)
                  /\ RegenFired
                  /\ player'.energy = Min(Stat(100), player.energy + Hundredths(5))
          /\ player'.hunger = IF last'.boundary THEN Max(0, player.hunger - Stat(1))
                              ELSE player.hunger]_vars

\* An idle, unrested player with hunger above 50 has regained 0.05 energy.
SlowRegen ==
  /\ last.op = "update"
  /\ ~RestHeld(last.arg)
  /\ regenTimer = 0
  /\ ~player.isMoving
  /\ player.energy = Hundredths(5)
  /\ steps = 1

\* ------------------------------------------------------------------------
\* C28: from a fresh world (day 1, timeOfDay 480, totalMinutes 480), after any
\* sequence of ticks totalMinutes = (day - 1) * 1440 + timeOfDay, day
\* rollovers included.
BaselineConsistent ==
  gameState.totalMinutes
    = (gameState.day - 1) * GAME_MINS_PER_DAY + gameState.timeOfDay

\* Two frames have each rolled the day over.
ThirdDay ==
  /\ last.op = "update"
  /\ last.tides = 1
  /\ gameState.day = 3

\* ------------------------------------------------------------------------
\* C29: after any sequence of select, craft, harvest, eat and place
\* operations no inventory count is negative, and a non-null active item has
\* an inventory count of at least 1.
ActiveInStock ==
  /\ \A k \in DOMAIN gameState.inventory : gameState.inventory[k] >= 0
  /\ activeItem # NoActive => Count(gameState.inventory, activeItem) >= 1

\* ------------------------------------------------------------------------
\* C30: with frames that keep game time going and the crafting menu closed,
\* every stump becomes a tree again: once 1440 game minutes have passed since
\* the chop a later frame regrows it, whatever the deltaTimes and the resting.
\* (A stump that is due while two 20-minute boundaries are still ahead of the
\* horizon has frames enough for a sweep.)
Due(tile) ==
  /\ tile.item = "tree_stump"
  /\ tile.stumpChoppedAt # <<>>
  /\ gameState.totalMinutes >= tile.stumpChoppedAt[1] + REGROWTH_TIME

SomeStumpDue ==
  \E y \in Ys : \E x \in Xs : Due(map[y][x])

BetweenTiles ==
  /\ last.op = "update"
  /\ last.travelled > 0
  /\ player.isMoving
  /\ player.x # player.targetX * PosUnit

\* ------------------------------------------------------------------------
\* C32: while the crafting menu is open a tick changes nothing in the
\* simulation, for every deltaTime and every held key: day, timeOfDay,
\* totalMinutes, the time accumulator, the regeneration and save timers,
\* energy, hunger, the resting flag, the position and every tile stay.
PausedTickInert ==
  [][showCrafting /\ last'.op \in {"update", "paused"}
       => UNCHANGED <<map, player, gameState, timeAccumulator, saveTimer,
                      regenTimer>>]_vars

\* The same for the frames of the loop the current effect run owns.
OwnTickInert ==
  [][showCrafting /\ last'.op = "paused"
       => UNCHANGED <<map, player, gameState, timeAccumulator, saveTimer,
                      regenTimer>>]_vars
====
